---------------------------- MODULE Spec2Model ----------------------------
(***************************************************************************)
(* A model of the LS-8 emulator of cpu.py: the CPU object, the run loop    *)
(* (timer check, interrupt delivery, fetch and dispatch) and the 22        *)
(* instruction handlers.                                                   *)
(*                                                                         *)
(* Values.  Registers, memory cells, PC and FL hold Python numbers.  A     *)
(* Python int is unbounded and the code never masks it, so the model keeps *)
(* unbounded integers.  DIV is true division and yields a float.  Every    *)
(* value is a pair <<n, d>>: d = 0 is the int n, d > 0 is the float n/d    *)
(* (in lowest terms).  Floats are kept as exact rationals, which is what   *)
(* IEEE doubles give on the small quotients the programs below produce.    *)
(*                                                                         *)
(* Exceptions.  No handler catches anything, so an exception ends run().   *)
(* err holds the exception that ended the loop ("none" while it runs) and  *)
(* the state is the one the exception left behind, partial updates         *)
(* included.                                                               *)
(***************************************************************************)
EXTENDS Integers, Sequences, FiniteSets, TLC

\* ------------------------------------------------------------------------
\* Opcodes (cpu.py lines 8-29)
ADD  == 160
CALL == 80
CMP  == 167
DEC  == 102
DIV  == 163
HLT  == 1
INC  == 101
IRET == 19
JEQ  == 85
JMP  == 84
JNE  == 86
LD   == 131
LDI  == 130
MUL  == 162
OR   == 170
POP  == 70
PRA  == 72
PRN  == 71
PUSH == 69
RET  == 17
ST   == 132
SUB  == 161

\* Reserved register numbers (lines 33-35)
IM == 5
IS == 6
SP == 7

\* CMP flags (lines 39-41) and the timer bit of IS (line 45)
FL_LT == 4
FL_GT == 2
FL_EQ == 1
IS_TIMER == 1

\* The literal of line 160, written in hexadecimal in the source
CMP_CLEAR_MASK == 286330880

\* Sizes of self.ram and self.reg (lines 64, 66), the initial stack pointer
\* (line 67) and the base of the vector table (line 203)
MemSize == 256
NumRegs == 8
SP_INIT == 244
VECTOR_BASE == 248
\* chr() accepts code points below 0x110000
CHR_LIMIT == 1114112

\* The keys of self.branchtable (lines 70-93)
branchtable ==
    {ADD, CALL, CMP, DEC, DIV, HLT, INC, IRET, JEQ, JMP, JNE, LD, LDI, MUL,
     OR, POP, PRA, PRN, PUSH, RET, ST, SUB}

\* ------------------------------------------------------------------------
\* Bounds of the model
\* Bitwise operators are computed over this many low bits plus the sign.
BitWidth == 29
\* The history of delivered interrupts keeps its first MaxHist entries.
MaxHist == 2

\* ------------------------------------------------------------------------
\* Python numbers
I(n) == <<n, 0>>
IsInt(v) == v[2] = 0
Num(v) == v[1]

Abs(n) == IF n < 0 THEN -n ELSE n

RECURSIVE Gcd(_, _)
Gcd(a, b) == IF b = 0 THEN a ELSE Gcd(b, a % b)

\* The float n/d, d # 0, in lowest terms with a positive denominator
Float(n, d) ==
    LET g == Gcd(Abs(n), Abs(d))
        s == IF d < 0 THEN -1 ELSE 1
    IN  <<(s * n) \div g, (s * d) \div g>>

\* Numerator and denominator of a value read as a rational
QN(v) == v[1]
QD(v) == IF v[2] = 0 THEN 1 ELSE v[2]

\* a + b, a - b, a * b: int when both are ints, float otherwise
PyAdd(a, b) ==
    IF IsInt(a) /\ IsInt(b) THEN I(Num(a) + Num(b))
    ELSE Float(QN(a) * QD(b) + QN(b) * QD(a), QD(a) * QD(b))

PySub(a, b) ==
    IF IsInt(a) /\ IsInt(b) THEN I(Num(a) - Num(b))
    ELSE Float(QN(a) * QD(b) - QN(b) * QD(a), QD(a) * QD(b))

PyMul(a, b) ==
    IF IsInt(a) /\ IsInt(b) THEN I(Num(a) * Num(b))
    ELSE Float(QN(a) * QN(b), QD(a) * QD(b))

\* a / b for b # 0: always a float
PyTrueDiv(a, b) == Float(QN(a) * QD(b), QD(a) * QN(b))

PyIsZero(v) == QN(v) = 0
PyLess(a, b) == QN(a) * QD(b) < QN(b) * QD(a)

\* Bit k of the two's complement form of the integer n
Bit(n, k) == (n \div (2 ^ k)) % 2

RECURSIVE BitSum(_, _, _, _)
\* Sum of 2^k over the bits k < w that are set in both (both = TRUE) or in
\* either (both = FALSE) of m and n
BitSum(m, n, w, both) ==
    IF w = 0 THEN 0
    ELSE LET k == w - 1
             on == IF both THEN Bit(m, k) = 1 /\ Bit(n, k) = 1
                   ELSE Bit(m, k) = 1 \/ Bit(n, k) = 1
         IN  (IF on THEN 2 ^ k ELSE 0) + BitSum(m, n, k, both)

\* m & n and m | n on Python ints
BitAnd(m, n) ==
    BitSum(m, n, BitWidth, TRUE) - (IF m < 0 /\ n < 0 THEN 2 ^ BitWidth ELSE 0)

BitOr(m, n) ==
    BitSum(m, n, BitWidth, FALSE) - (IF m < 0 \/ n < 0 THEN 2 ^ BitWidth ELSE 0)

\* ~n, m << k, m >> k on Python ints
BitNot(n) == -n - 1
Shl(m, k) == m * (2 ^ k)
Shr(m, k) == m \div (2 ^ k)

\* Indexing a Python list of length len with the value v: a float raises
\* TypeError, an int outside -len..len-1 raises IndexError, a negative int
\* counts from the end.
ListIndexError(v, len) ==
    IF ~IsInt(v) THEN "TypeError"
    ELSE IF Num(v) < -len \/ Num(v) >= len THEN "IndexError"
    ELSE "none"

ListIndex(v, len) == Num(v) % len


\* ------------------------------------------------------------------------
\* The CPU object as a record s: the fields of __init__ (lines 54-67), the
\* exception that ended run() and the text written to stdout.
Raise(s, e, args) == [s EXCEPT !.err = e, !.err_args = args]
Ok(s) == s.err = "none"

\* A call that returns a value and may change the object or raise
Ret(s, v) == [s |-> s, val |-> v]

\* self.reg[r] as an expression and as an assignment target; r is an operand
\* byte or a constant index
reg_read(s, r) ==
    IF ~Ok(s) THEN Ret(s, I(0))
    ELSE IF ListIndexError(r, NumRegs) # "none"
         THEN Ret(Raise(s, ListIndexError(r, NumRegs), <<>>), I(0))
    ELSE Ret(s, s.reg[ListIndex(r, NumRegs)])

reg_write(s, r, v) ==
    IF ~Ok(s) THEN s
    ELSE IF ListIndexError(r, NumRegs) # "none"
         THEN Raise(s, ListIndexError(r, NumRegs), <<>>)
    ELSE [s EXCEPT !.reg[ListIndex(r, NumRegs)] = v]

\* ram_write (lines 111-112)
ram_write(s, mdr, mar) ==
    IF ~Ok(s) THEN s
    ELSE IF ListIndexError(mar, MemSize) # "none"
         THEN Raise(s, ListIndexError(mar, MemSize), <<>>)
    ELSE [s EXCEPT !.ram[ListIndex(mar, MemSize)] = mdr]

\* ram_read (lines 114-115)
ram_read(s, mar) ==
    IF ~Ok(s) THEN Ret(s, I(0))
    ELSE IF ListIndexError(mar, MemSize) # "none"
         THEN Ret(Raise(s, ListIndexError(mar, MemSize), <<>>), I(0))
    ELSE Ret(s, s.ram[ListIndex(mar, MemSize)])

\* push_val that writes at SP and decrements afterwards
push_val_post_decrement(s, val) ==
    IF ~Ok(s) THEN s
    ELSE LET t == ram_write(s, val, s.reg[SP])
         IN  IF ~Ok(t) THEN t ELSE [t EXCEPT !.reg[SP] = PySub(@, I(1))]

\* push_val (lines 117-119): decrement SP, then write at the new SP
push_val(s, val) ==
    IF ~Ok(s) THEN s
    ELSE LET t == [s EXCEPT !.reg[SP] = PySub(@, I(1))]
         IN  ram_write(t, val, t.reg[SP])

\* phandle_val that increments SP before it reads
phandle_val_increment_first(s) ==
    LET t == [s EXCEPT !.reg[SP] = PyAdd(@, I(1))]
        r == ram_read(t, t.reg[SP])
    IN  IF ~Ok(s) THEN Ret(s, I(0)) ELSE r

\* phandle_val (lines 121-125): read at SP, then increment SP
phandle_val(s) ==
    LET r == ram_read(s, s.reg[SP])
    IN  IF ~Ok(r.s) THEN r
        ELSE Ret([r.s EXCEPT !.reg[SP] = PyAdd(@, I(1))], r.val)

\* cmp_clear that leaves the old comparison bits in place
cmp_clear_nothing(f) == f

\* The clearing of the comparison bits at line 160
cmp_clear(f) == BitAnd(f, CMP_CLEAR_MASK)

\* The flag CMP sets (lines 161-166)
cmp_flag(x, y) ==
    IF PyLess(x, y) THEN FL_LT ELSE IF PyLess(y, x) THEN FL_GT ELSE FL_EQ

\* alu_arith with ADD computing a difference
alu_arith_add_subtracts(op, x, y) ==
    CASE op = "ADD" -> PySub(x, y)
      [] op = "SUB" -> PySub(x, y)
      [] op = "MUL" -> PyMul(x, y)

\* The binary arithmetic of lines 147-152
alu_arith(op, x, y) ==
    CASE op = "ADD" -> PyAdd(x, y)
      [] op = "SUB" -> PySub(x, y)
      [] op = "MUL" -> PyMul(x, y)

\* alu (lines 144-170).  An augmented assignment reads self.reg[reg_a], then
\* self.reg[reg_b], computes, and stores into self.reg[reg_a].
alu(s, op, reg_a, reg_b) ==
    IF ~Ok(s) THEN s
    ELSE IF op \in {"ADD", "SUB", "MUL"} THEN
        LET x == reg_read(s, reg_a)
            y == reg_read(x.s, reg_b)
        IN  IF ~Ok(y.s) THEN y.s
            ELSE reg_write(y.s, reg_a, alu_arith(op, x.val, y.val))
    ELSE IF op = "DIV" THEN
        LET x == reg_read(s, reg_a)
            y == reg_read(x.s, reg_b)
        IN  IF ~Ok(y.s) THEN y.s
            ELSE IF PyIsZero(y.val) THEN Raise(y.s, "ZeroDivisionError", <<>>)
            ELSE reg_write(y.s, reg_a, PyTrueDiv(x.val, y.val))
    ELSE IF op = "DEC" THEN
        LET x == reg_read(s, reg_a)
        IN  IF ~Ok(x.s) THEN x.s ELSE reg_write(x.s, reg_a, PySub(x.val, I(1)))
    ELSE IF op = "INC" THEN
        LET x == reg_read(s, reg_a)
        IN  IF ~Ok(x.s) THEN x.s ELSE reg_write(x.s, reg_a, PyAdd(x.val, I(1)))
    ELSE IF op = "CMP" THEN
        IF ~IsInt(s.fl) THEN Raise(s, "TypeError", <<>>)
        ELSE LET c == [s EXCEPT !.fl = I(cmp_clear(Num(s.fl)))]
                 x == reg_read(c, reg_a)
                 y == reg_read(x.s, reg_b)
             IN  IF ~Ok(y.s) THEN y.s
                 ELSE [y.s EXCEPT
                         !.fl = I(BitOr(Num(c.fl), cmp_flag(x.val, y.val)))]
    ELSE IF op = "OR" THEN
        LET x == reg_read(s, reg_a)
            y == reg_read(x.s, reg_b)
        IN  IF ~Ok(y.s) THEN y.s
            ELSE IF ~IsInt(x.val) \/ ~IsInt(y.val)
                 THEN Raise(y.s, "TypeError", <<>>)
            ELSE reg_write(y.s, reg_a, I(BitOr(Num(x.val), Num(y.val))))
    ELSE Raise(s, "UnsupportedALU", <<>>)

\* check_for_timer_int (lines 172-182).  elapsed stands for the outcome of
\* the wall-clock comparison diff.seconds >= 1 of line 180.
check_for_timer_int(s, elapsed) ==
    IF ~elapsed THEN s
    ELSE IF ~IsInt(s.reg[IS]) THEN Raise(s, "TypeError", <<>>)
    ELSE [s EXCEPT !.reg[IS] = I(BitOr(Num(@), IS_TIMER))]

\* masked_ints that takes the status register alone
masked_ints_without_mask(s) == Num(s.reg[IS])

\* The value of masked_ints (line 189); reg[IM] and reg[IS] are ints here
masked_ints(s) == BitAnd(Num(s.reg[IM]), Num(s.reg[IS]))

\* The interrupts the scan of lines 190-192 sees pending
PendingLines(m) == {i \in 0 .. 7 : BitAnd(m, Shl(1, i)) # 0}

\* first_line that scans from bit 7 down
first_line_highest(m) ==
    CHOOSE i \in PendingLines(m) : \A j \in PendingLines(m) : i >= j

\* The line the scan stops at: the first i in range(8) whose bit is set
first_line(m) == CHOOSE i \in PendingLines(m) : \A j \in PendingLines(m) : i <= j

RECURSIVE push_regs(_, _)
\* for r in range(7): self.push_val(self.reg[r]), from register r on
\* (lines 199-200)
push_regs(s, r) ==
    IF r >= 7 THEN s ELSE push_regs(push_val(s, s.reg[r]), r + 1)

\* deliver that saves FL before PC
deliver_fl_before_pc(s, i) ==
    LET a == [s EXCEPT !.ie = 0,
                       !.reg[IS] = I(BitAnd(Num(@), BitNot(Shl(1, i))))]
        b == push_val(a, a.fl)
        c == push_val(b, b.pc)
        d == push_regs(c, 0)
        v == ram_read(d, I(VECTOR_BASE + i))
    IN  IF ~Ok(v.s) THEN v.s ELSE [v.s EXCEPT !.pc = v.val]

\* The body of the scan for line i (lines 193-203)
deliver(s, i) ==
    LET a == [s EXCEPT !.ie = 0,
                       !.reg[IS] = I(BitAnd(Num(@), BitNot(Shl(1, i))))]
        b == push_val(a, a.pc)
        c == push_val(b, b.fl)
        d == push_regs(c, 0)
        v == ram_read(d, I(VECTOR_BASE + i))
    IN  IF ~Ok(v.s) THEN v.s ELSE [v.s EXCEPT !.pc = v.val]

\* handle_ints without the test of self.ie
handle_ints_ignoring_ie(s) ==
    IF ~IsInt(s.reg[IM]) \/ ~IsInt(s.reg[IS])
    THEN Raise(s, "TypeError", <<>>)
    ELSE IF PendingLines(masked_ints(s)) = {} THEN s
    ELSE deliver(s, first_line(masked_ints(s)))

\* handle_ints (lines 184-205)
handle_ints(s) ==
    IF s.ie = 0 THEN s
    ELSE IF ~IsInt(s.reg[IM]) \/ ~IsInt(s.reg[IS])
         THEN Raise(s, "TypeError", <<>>)
    ELSE IF PendingLines(masked_ints(s)) = {} THEN s
    ELSE deliver(s, first_line(masked_ints(s)))


\* ------------------------------------------------------------------------
\* Instruction handlers (lines 248-327), each on the object s with the two
\* operand bytes

handle_ldi(s, operand_a, operand_b) == reg_write(s, operand_a, operand_b)

\* print(self.reg[operand_a])
handle_prn(s, operand_a, operand_b) ==
    LET x == reg_read(s, operand_a)
    IN  IF ~Ok(x.s) THEN x.s
        ELSE [x.s EXCEPT !.out = Append(@, [fn |-> "PRN", val |-> x.val])]

\* print(chr(self.reg[operand_a]), end=''): chr raises TypeError on a float
\* and ValueError outside range(0x110000)
handle_pra(s, operand_a, operand_b) ==
    LET x == reg_read(s, operand_a)
    IN  IF ~Ok(x.s) THEN x.s
        ELSE IF ~IsInt(x.val) THEN Raise(x.s, "TypeError", <<>>)
        ELSE IF Num(x.val) < 0 \/ Num(x.val) >= CHR_LIMIT
             THEN Raise(x.s, "ValueError", <<>>)
        ELSE [x.s EXCEPT !.out = Append(@, [fn |-> "PRA", val |-> x.val])]

handle_add(s, operand_a, operand_b) == alu(s, "ADD", operand_a, operand_b)
handle_sub(s, operand_a, operand_b) == alu(s, "SUB", operand_a, operand_b)
handle_mul(s, operand_a, operand_b) == alu(s, "MUL", operand_a, operand_b)
\* handle_div passing an operation name alu does not know
handle_div_unknown_op(s, operand_a, operand_b) ==
    alu(s, "DIVIDE", operand_a, operand_b)
handle_div(s, operand_a, operand_b) == alu(s, "DIV", operand_a, operand_b)
\* DEC and INC pass None for reg_b, which alu does not read
handle_dec(s, operand_a, operand_b) == alu(s, "DEC", operand_a, I(0))
handle_inc(s, operand_a, operand_b) == alu(s, "INC", operand_a, I(0))
handle_or(s, operand_a, operand_b) == alu(s, "OR", operand_a, operand_b)
handle_cmp(s, operand_a, operand_b) == alu(s, "CMP", operand_a, operand_b)

\* self.reg[operand_a] = self.phandle_val(): the pop comes first
handle_pop(s, operand_a, operand_b) ==
    LET v == phandle_val(s)
    IN  reg_write(v.s, operand_a, v.val)

handle_push(s, operand_a, operand_b) ==
    LET x == reg_read(s, operand_a)
    IN  push_val(x.s, x.val)

\* return_address that skips the opcode only
return_address_plus_one(p) == PyAdd(p, I(1))

\* The return address CALL pushes (line 286)
return_address(p) == PyAdd(p, I(2))

handle_call(s, operand_a, operand_b) ==
    LET t == push_val(s, return_address(s.pc))
        x == reg_read(t, operand_a)
    IN  IF ~Ok(x.s) THEN x.s ELSE [x.s EXCEPT !.pc = x.val]

handle_ret(s, operand_a, operand_b) ==
    LET v == phandle_val(s)
    IN  IF ~Ok(v.s) THEN v.s ELSE [v.s EXCEPT !.pc = v.val]

\* self.reg[operand_a] = self.ram_read(self.reg[operand_b])
handle_ld(s, operand_a, operand_b) ==
    LET x == reg_read(s, operand_b)
        v == ram_read(x.s, x.val)
    IN  reg_write(v.s, operand_a, v.val)

\* self.ram_write(self.reg[operand_b], self.reg[operand_a])
handle_st(s, operand_a, operand_b) ==
    LET x == reg_read(s, operand_b)
        y == reg_read(x.s, operand_a)
    IN  ram_write(y.s, x.val, y.val)

handle_jmp(s, operand_a, operand_b) ==
    LET x == reg_read(s, operand_a)
    IN  IF ~Ok(x.s) THEN x.s ELSE [x.s EXCEPT !.pc = x.val]

\* The test self.fl & FL_EQ of lines 302 and 308, on an int FL
fl_eq(f) == BitAnd(f, FL_EQ) # 0

\* handle_jeq that leaves inst_set_pc set when it does not jump
handle_jeq_keeping_flag(s, operand_a, operand_b) ==
    IF ~IsInt(s.fl) THEN Raise(s, "TypeError", <<>>)
    ELSE IF fl_eq(Num(s.fl)) THEN handle_jmp(s, operand_a, operand_b)
    ELSE s

handle_jeq(s, operand_a, operand_b) ==
    IF ~IsInt(s.fl) THEN Raise(s, "TypeError", <<>>)
    ELSE IF fl_eq(Num(s.fl)) THEN handle_jmp(s, operand_a, operand_b)
    ELSE [s EXCEPT !.inst_set_pc = FALSE]

handle_jne(s, operand_a, operand_b) ==
    IF ~IsInt(s.fl) THEN Raise(s, "TypeError", <<>>)
    ELSE IF ~fl_eq(Num(s.fl)) THEN handle_jmp(s, operand_a, operand_b)
    ELSE [s EXCEPT !.inst_set_pc = FALSE]

RECURSIVE pop_regs(_, _)
\* for i in range(6, -1, -1): self.reg[i] = self.phandle_val(), from
\* register i down (lines 318-319)
pop_regs(s, i) ==
    IF i < 0 THEN s
    ELSE LET v == phandle_val(s)
         IN  pop_regs(reg_write(v.s, I(i), v.val), i - 1)

\* handle_iret that restores registers 5 .. 0 only, with eight pops
handle_iret_eight_pops(s, operand_a, operand_b) ==
    LET r == pop_regs(s, 5)
        f == phandle_val(r)
        g == IF ~Ok(f.s) THEN f.s ELSE [f.s EXCEPT !.fl = f.val]
        p == phandle_val(g)
    IN  IF ~Ok(p.s) THEN p.s ELSE [p.s EXCEPT !.pc = p.val, !.ie = 1]

\* handle_iret that keeps the IS bits raised since the delivery
handle_iret_keeping_raised(s, operand_a, operand_b) ==
    LET r == pop_regs(s, 6)
        k == IF Ok(r) /\ IsInt(r.reg[IS]) /\ IsInt(s.reg[IS])
             THEN [r EXCEPT !.reg[IS] = I(BitOr(Num(@), Num(s.reg[IS])))]
             ELSE r
        f == phandle_val(k)
        g == IF ~Ok(f.s) THEN f.s ELSE [f.s EXCEPT !.fl = f.val]
        p == phandle_val(g)
    IN  IF ~Ok(p.s) THEN p.s ELSE [p.s EXCEPT !.pc = p.val, !.ie = 1]

handle_iret(s, operand_a, operand_b) ==
    LET r == pop_regs(s, 6)
        f == phandle_val(r)
        g == IF ~Ok(f.s) THEN f.s ELSE [f.s EXCEPT !.fl = f.val]
        p == phandle_val(g)
    IN  IF ~Ok(p.s) THEN p.s ELSE [p.s EXCEPT !.pc = p.val, !.ie = 1]

\* handle_hlt that does nothing
handle_hlt_ignored(s, operand_a, operand_b) == s

handle_hlt(s, operand_a, operand_b) == [s EXCEPT !.halted = TRUE]

\* ------------------------------------------------------------------------
\* Fetch and decode (lines 231-236)

\* fetch that reads an operand only when bits 6-7 of the opcode count it
fetch_counted_operands(s) ==
    LET i == ram_read(s, s.pc)
        n == IF Ok(i.s) /\ IsInt(i.val) THEN BitAnd(Shr(Num(i.val), 6), 3) ELSE 0
        a == IF n >= 1 THEN ram_read(i.s, PyAdd(s.pc, I(1))) ELSE Ret(i.s, I(0))
        b == IF n >= 2 THEN ram_read(a.s, PyAdd(s.pc, I(2))) ELSE Ret(a.s, I(0))
    IN  [s |-> b.s, ir |-> i.val, operand_a |-> a.val, operand_b |-> b.val]

\* ir, operand_a and operand_b as read at lines 231-233
fetch(s) ==
    LET i == ram_read(s, s.pc)
        a == ram_read(i.s, PyAdd(s.pc, I(1)))
        b == ram_read(a.s, PyAdd(s.pc, I(2)))
    IN  [s |-> b.s, ir |-> i.val, operand_a |-> a.val, operand_b |-> b.val]

\* inst_size (line 235) and the "sets PC" bit (line 236) of an int opcode
inst_size(ir) == BitAnd(Shr(ir, 6), 3) + 1
sets_pc(ir) == BitAnd(Shr(ir, 4), 1) = 1

\* Lines 244-246: move to the next instruction unless the handler set PC
advance(s, size) ==
    IF Ok(s) /\ ~s.inst_set_pc THEN [s EXCEPT !.pc = PyAdd(@, I(size))] ELSE s


\* ------------------------------------------------------------------------
\* Program images.  load() (lines 95-105) stores one byte per line of the
\* program file from address 0 on; the rest of the 256 cells stay 0.

\* The bytes of one instruction: bits 6-7 of the opcode count its operands
Enc(op, a, b) ==
    IF op >= 128 THEN <<op, a, b>> ELSE IF op >= 64 THEN <<op, a>> ELSE <<op>>

\* bytes followed by zero lines up to address n
PadTo(bytes, n) == bytes \o [k \in 1 .. (n - Len(bytes)) |-> 0]

load(bytes) ==
    [a \in 0 .. (MemSize - 1) |-> I(IF a < Len(bytes) THEN bytes[a + 1] ELSE 0)]

Prog(name, bytes) == [name |-> name, bytes |-> bytes]

AluOps == {ADD, SUB, MUL, DIV, OR, CMP, INC, DEC}
SecondOps == {CMP, OR, DEC, MUL}
\* Operand pairs: overflow, borrow, division by zero, both orders, equality
AluPairs ==
    {<<255, 1>>, <<0, 1>>, <<1, 0>>, <<0, 0>>, <<3, 5>>, <<5, 3>>, <<5, 5>>,
     <<255, 255>>}
Pairs == {<<3, 5>>, <<5, 3>>, <<5, 5>>}

\* The end-to-end program of the specification
AddProgram ==
    {Prog("add", Enc(LDI, 0, 8) \o Enc(LDI, 1, 9) \o Enc(ADD, 0, 1)
                 \o Enc(PRN, 0, 0) \o Enc(HLT, 0, 0))}

\* Two ALU instructions on two loaded registers
AluPrograms ==
    {Prog("alu", Enc(LDI, 0, ab[1]) \o Enc(LDI, 1, ab[2]) \o Enc(op1, 0, 1)
                 \o Enc(op2, 1, 0) \o Enc(PRN, 0, 0) \o Enc(HLT, 0, 0)) :
        <<ab, op1, op2>> \in AluPairs \X AluOps \X SecondOps}

\* PUSH r then POP q, from stack pointer s, register r loaded with v
StackPrograms ==
    {Prog("stack", Enc(LDI, SP, s) \o Enc(LDI, r, v) \o Enc(PUSH, r, 0)
                   \o Enc(POP, q, 0) \o Enc(HLT, 0, 0)) :
        <<s, r, q, v>> \in {SP_INIT, 0, 10} \X (0 .. 7) \X (0 .. 7) \X {2, 200}}

\* PUSH then POP from a stack pointer the prefix has moved to 256, 257, -1
\* or the float 1.0
StackEdgePrograms ==
    {Prog("stackedge", Enc(LDI, SP, 255) \o pre \o Enc(LDI, 1, 9)
                       \o Enc(PUSH, 1, 0) \o Enc(POP, 2, 0) \o Enc(HLT, 0, 0)) :
        pre \in {Enc(INC, SP, 0),
                 Enc(INC, SP, 0) \o Enc(INC, SP, 0),
                 Enc(LDI, SP, 0) \o Enc(DEC, SP, 0),
                 Enc(LDI, 0, 255) \o Enc(DIV, SP, 0)}}

\* k two-byte instructions, then CALL r to a subroutine at address A
CallPrograms ==
    {Prog("call",
          PadTo([j \in 1 .. (2 * k) |-> IF j % 2 = 1 THEN INC ELSE 2]
                \o Enc(LDI, r, A) \o Enc(CALL, r, 0) \o Enc(PRN, 0, 0)
                \o Enc(HLT, 0, 0), A) \o sub) :
        <<k, r, A, sub>> \in {0, 1, 6} \X {0, 1, SP} \X {40, 200, 253, 254}
                             \X {<<RET>>, <<INC, 0, RET>>}}

\* Handlers for interrupt 0: one with balanced pushes and pops, one that
\* leaves a value on the stack, one that rewrites the saved PC
Handler0(kind) ==
    CASE kind = "balanced" ->
            Enc(LDI, 0, 77) \o Enc(DEC, 1, 0) \o Enc(PUSH, 0, 0)
            \o Enc(POP, 2, 0) \o Enc(CMP, 1, 0) \o Enc(IRET, 0, 0)
      [] kind = "unbalanced" ->
            Enc(LDI, 0, 77) \o Enc(PUSH, 0, 0) \o Enc(IRET, 0, 0)
      [] kind = "rewrite" ->
            Enc(LDI, 0, SP_INIT - 1) \o Enc(LDI, 1, 37) \o Enc(ST, 0, 1)
            \o Enc(IRET, 0, 0)

\* Vectors 0 and 2 are set, IM and IS are loaded, and a short main program
\* runs while the handlers at 40 and 60 may be entered
IntProgram(kind, a, b, im, is) ==
    PadTo(PadTo(Enc(LDI, 0, VECTOR_BASE) \o Enc(LDI, 1, 40) \o Enc(ST, 0, 1)
                \o Enc(LDI, 0, VECTOR_BASE + 2) \o Enc(LDI, 1, 60)
                \o Enc(ST, 0, 1)
                \o Enc(LDI, IM, im) \o Enc(LDI, IS, is)
                \o Enc(LDI, 0, a) \o Enc(LDI, 1, b) \o Enc(CMP, 0, 1)
                \o Enc(INC, 2, 0) \o Enc(PRN, 0, 0) \o Enc(HLT, 0, 0), 40)
          \o Handler0(kind), 60)
    \o Enc(INC, 3, 0) \o Enc(IRET, 0, 0)

IntPrograms ==
    {Prog("int", IntProgram("balanced", ab[1], ab[2], m[1], m[2])) :
        <<ab, m>> \in Pairs \X {<<5, 5>>, <<1, 0>>, <<5, 4>>, <<4, 5>>}}
    \cup {Prog("int", IntProgram(kind, 3, 5, 1, 1)) :
            kind \in {"unbalanced", "rewrite"}}

\* Vector 0 is set, the stack pointer is moved to s, and line 0 is unmasked
\* and raised; the handler at 40 returns at once
SpIntPrograms ==
    {Prog("intsp",
          PadTo(Enc(LDI, 0, VECTOR_BASE) \o Enc(LDI, 1, 40) \o Enc(ST, 0, 1)
                \o Enc(LDI, SP, s) \o Enc(LDI, IM, 1) \o Enc(LDI, IS, 1)
                \o Enc(INC, 2, 0) \o Enc(HLT, 0, 0), 40)
          \o Enc(INC, 3, 0) \o Enc(IRET, 0, 0)) :
        s \in {100, 255, 5}}

RECURSIVE PushAll(_)
\* LDI R0 v; PUSH R0 for each v of vs
PushAll(vs) ==
    IF vs = <<>> THEN <<>>
    ELSE Enc(LDI, 0, Head(vs)) \o Enc(PUSH, 0, 0) \o PushAll(Tail(vs))

\* A frame (PC 46, FL f, R0 a, R1 b, R2-R6 0) is pushed by hand and entered
\* with IRET; the code at 46 compares R0 with R1
IretPrograms ==
    {Prog("iret", PushAll(<<46, f, ab[1], ab[2], 0, 0, 0, 0, 0>>)
                  \o Enc(IRET, 0, 0) \o Enc(CMP, 0, 1) \o Enc(HLT, 0, 0)) :
        <<f, ab>> \in {0, 1, 2, 4, 7, 255} \X Pairs}

\* A jump to address 20, after a CMP or with FL as it is
JumpPrograms ==
    {Prog("jump",
          PadTo(Enc(LDI, 0, ab[1]) \o Enc(LDI, 1, ab[2]) \o Enc(LDI, 2, 20)
                \o cmp \o Enc(j, 2, 0) \o Enc(PRN, 0, 0) \o Enc(HLT, 0, 0), 20)
          \o Enc(PRN, 1, 0) \o Enc(HLT, 0, 0)) :
        <<ab, cmp, j>> \in Pairs \X {<<>>, Enc(CMP, 0, 1)} \X {JMP, JEQ, JNE}}

\* A store, a load from the same address and a character print
MemPrograms ==
    {Prog("mem", Enc(LDI, 0, addr) \o Enc(LDI, 1, v) \o Enc(ST, 0, 1)
                 \o Enc(LD, 2, 0) \o Enc(PRA, 2, 0) \o Enc(HLT, 0, 0)) :
        <<addr, v>> \in {0, 100, 255} \X {0, 65, 255}}

\* A first byte that is no opcode, and a byte op stored at address T and
\* jumped to
BadPrograms ==
    {Prog("bad", <<op>>) : op \in {255, 0, 2}}
    \cup {Prog("badjump", Enc(LDI, 0, T) \o Enc(LDI, 1, op) \o Enc(ST, 0, 1)
                          \o Enc(JMP, 0, 0)) :
            <<T, op>> \in {100, 253, 254, 255} \X {255, HLT}}

\* An address register moved to 256 or to -1 and then used by ST, LD or
\* JMP; and an LDI stored at address 253, after which PC is 256
AddressEdgePrograms ==
    {Prog("addredge", Enc(LDI, 0, e[1]) \o Enc(e[2], 0, 0) \o Enc(LDI, 1, 9)
                      \o use \o Enc(PRN, 2, 0) \o Enc(HLT, 0, 0)) :
        <<e, use>> \in {<<255, INC>>, <<0, DEC>>}
                       \X {Enc(ST, 0, 1), Enc(LD, 2, 0), Enc(JMP, 0, 0)}}
    \cup {Prog("addredge", Enc(LDI, 0, 253) \o Enc(LDI, 1, LDI) \o Enc(ST, 0, 1)
                           \o Enc(JMP, 0, 0))}

Programs ==
    AddProgram \cup AluPrograms \cup StackPrograms \cup StackEdgePrograms
    \cup CallPrograms
    \cup IntPrograms \cup IretPrograms \cup JumpPrograms \cup MemPrograms
    \cup BadPrograms \cup AddressEdgePrograms \cup SpIntPrograms


\* ------------------------------------------------------------------------
\* State

VARIABLES
    pc, fl, ie, halted, inst_set_pc, ram, reg,  \* the fields of the CPU
    err, err_args,      \* the exception that ended run(), and its arguments
    out,                \* what PRN and PRA have printed
    at,                 \* position in run(): at the loop test and timer check
                        \* ("timer"), the delivery check ("ints"), the fetch
                        \* ("fetch"), or returned ("done")
    image,              \* name of the loaded program
    prev,               \* the last dispatched instruction and the state it found
    prev2,              \* the instruction dispatched before prev
    snap,               \* the last interrupt delivery and the state it found
    delivered,          \* history of the delivered interrupts
    iret_since          \* an IRET has completed since the last delivery

cpu == <<pc, fl, ie, halted, inst_set_pc, ram, reg, err, err_args, out>>
vars == <<pc, fl, ie, halted, inst_set_pc, ram, reg, err, err_args, out, at,
          image, prev, prev2, snap, delivered, iret_since>>

\* The CPU object in the current state
S ==
    [pc |-> pc, fl |-> fl, ie |-> ie, halted |-> halted,
     inst_set_pc |-> inst_set_pc, ram |-> ram, reg |-> reg,
     err |-> err, err_args |-> err_args, out |-> out]

\* The CPU object t becomes the next state
Commit(t) ==
    /\ pc' = t.pc
    /\ fl' = t.fl
    /\ ie' = t.ie
    /\ halted' = t.halted
    /\ inst_set_pc' = t.inst_set_pc
    /\ ram' = t.ram
    /\ reg' = t.reg
    /\ err' = t.err
    /\ err_args' = t.err_args
    /\ out' = t.out

NoPrev ==
    [op |-> -1, pc |-> I(0), fl |-> I(0), reg |-> [i \in 0 .. 7 |-> I(0)],
     operand_a |-> I(0), operand_b |-> I(0), ok |-> FALSE]

NoSnap ==
    [line |-> -1, pc |-> I(0), fl |-> I(0), reg |-> [i \in 0 .. 7 |-> I(0)],
     frame |-> [k \in 1 .. 9 |-> I(0)], ok |-> FALSE]

\* __init__ (lines 52-67) followed by load()
Init ==
    \E p \in Programs :
        /\ pc = I(0)
        /\ fl = I(0)
        /\ ie = 1
        /\ halted = FALSE
        /\ inst_set_pc = FALSE
        /\ ram = load(p.bytes)
        /\ reg = [i \in 0 .. (NumRegs - 1) |-> IF i = SP THEN I(SP_INIT) ELSE I(0)]
        /\ err = "none"
        /\ err_args = <<>>
        /\ out = <<>>
        /\ at = "timer"
        /\ image = p.name
        /\ prev = NoPrev
        /\ prev2 = NoPrev
        /\ snap = NoSnap
        /\ delivered = <<>>
        /\ iret_since = FALSE

\* ------------------------------------------------------------------------
\* The loop of run() (lines 224-246)

\* Line 224 and line 227: the loop goes on and the timer check runs; the
\* clock decides whether a second has elapsed
run_check_for_timer_int ==
    /\ at = "timer"
    /\ ~halted
    /\ err = "none"
    /\ \E elapsed \in BOOLEAN : Commit(check_for_timer_int(S, elapsed))
    /\ at' = "ints"
    /\ UNCHANGED <<image, prev, prev2, snap, delivered, iret_since>>

\* Line 224 with halted set: the loop ends and run() returns
run_return ==
    /\ at = "timer"
    /\ halted
    /\ err = "none"
    /\ at' = "done"
    /\ UNCHANGED <<cpu, image, prev, prev2, snap, delivered, iret_since>>

\* The nine cells above stack pointer sp, in the order a delivery pushes
\* them: PC, FL, R0 .. R6
Frame(m, sp) == [k \in 1 .. 9 |-> m[(Num(sp) + 9 - k) % MemSize]]

\* run_handle_ints that goes on to the fetch without the delivery check
run_handle_ints_skipped ==
    /\ at = "ints"
    /\ err = "none"
    /\ at' = "fetch"
    /\ UNCHANGED <<cpu, image, prev, prev2, snap, delivered, iret_since>>

\* Line 228: the delivery check
run_handle_ints ==
    /\ at = "ints"
    /\ err = "none"
    /\ LET t == handle_ints(S)
           entered == ie = 1 /\ t.ie = 0
       IN  /\ Commit(t)
           /\ IF entered
              THEN /\ snap' = [line |-> first_line(masked_ints(S)),
                               pc |-> pc, fl |-> fl, reg |-> reg,
                               frame |-> IF Ok(t) THEN Frame(t.ram, t.reg[SP])
                                         ELSE NoSnap.frame,
                               ok |-> Ok(t)]
                   /\ delivered' =
                        IF Len(delivered) < MaxHist
                        THEN Append(delivered,
                                    [line |-> first_line(masked_ints(S)),
                                     after_iret |-> iret_since])
                        ELSE delivered
                   /\ iret_since' = FALSE
                   /\ prev' = NoPrev
                   /\ prev2' = NoPrev
              ELSE UNCHANGED <<snap, delivered, iret_since, prev, prev2>>
    /\ at' = "fetch"
    /\ UNCHANGED image

\* What lines 231-233 read in the current state
fetched == fetch(S)

\* Lines 231-235 raise: an address of the fetch is no index of ram, or the
\* opcode cell holds a float
run_fetch_error ==
    /\ at = "fetch"
    /\ err = "none"
    /\ \/ ~Ok(fetched.s)
       \/ ~IsInt(fetched.ir)
    /\ Commit(IF ~Ok(fetched.s) THEN fetched.s ELSE Raise(S, "TypeError", <<>>))
    /\ UNCHANGED <<at, image, prev, prev2, snap, delivered, iret_since>>

\* The fetch succeeded and read the int opcode ir
Fetched(op) ==
    /\ at = "fetch"
    /\ err = "none"
    /\ Ok(fetched.s)
    /\ IsInt(fetched.ir)
    /\ Num(fetched.ir) = op

\* The object the handler is called on (line 236 has set inst_set_pc)
decoded == [S EXCEPT !.inst_set_pc = sets_pc(Num(fetched.ir))]

\* invalid_instruction that moves past the opcode before it raises
invalid_instruction_skipping(s, ir) ==
    Raise([s EXCEPT !.pc = PyAdd(@, I(1))], "InvalidInstruction", <<ir, s.pc>>)

\* The exception of lines 241-242, which names the opcode and the address
invalid_instruction(s, ir) == Raise(s, "InvalidInstruction", <<ir, s.pc>>)

\* Lines 240-242: no handler for ir
run_invalid_instruction ==
    /\ \E op \in {Num(fetched.ir)} : Fetched(op) /\ op \notin branchtable
    /\ Commit(invalid_instruction(decoded, fetched.ir))
    /\ UNCHANGED <<at, image, prev, prev2, snap, delivered, iret_since>>

\* Lines 239 and 244-246: the handler has returned the object t
Dispatched(t) ==
    /\ Commit(advance(t, inst_size(Num(fetched.ir))))
    /\ at' = "timer"
    /\ prev' = [op |-> Num(fetched.ir), pc |-> pc, fl |-> fl, reg |-> reg,
                operand_a |-> fetched.operand_a,
                operand_b |-> fetched.operand_b, ok |-> Ok(t)]
    /\ prev2' = prev
    /\ iret_since' = (iret_since \/ (Num(fetched.ir) = IRET /\ Ok(t)))
    /\ UNCHANGED <<image, snap, delivered>>

run_add  == Fetched(ADD)  /\ Dispatched(handle_add(decoded, fetched.operand_a, fetched.operand_b))
run_call == Fetched(CALL) /\ Dispatched(handle_call(decoded, fetched.operand_a, fetched.operand_b))
run_cmp  == Fetched(CMP)  /\ Dispatched(handle_cmp(decoded, fetched.operand_a, fetched.operand_b))
run_dec  == Fetched(DEC)  /\ Dispatched(handle_dec(decoded, fetched.operand_a, fetched.operand_b))
run_div  == Fetched(DIV)  /\ Dispatched(handle_div(decoded, fetched.operand_a, fetched.operand_b))
run_hlt  == Fetched(HLT)  /\ Dispatched(handle_hlt(decoded, fetched.operand_a, fetched.operand_b))
run_inc  == Fetched(INC)  /\ Dispatched(handle_inc(decoded, fetched.operand_a, fetched.operand_b))
run_iret == Fetched(IRET) /\ Dispatched(handle_iret(decoded, fetched.operand_a, fetched.operand_b))
run_jeq  == Fetched(JEQ)  /\ Dispatched(handle_jeq(decoded, fetched.operand_a, fetched.operand_b))
run_jmp  == Fetched(JMP)  /\ Dispatched(handle_jmp(decoded, fetched.operand_a, fetched.operand_b))
run_jne  == Fetched(JNE)  /\ Dispatched(handle_jne(decoded, fetched.operand_a, fetched.operand_b))
run_ld   == Fetched(LD)   /\ Dispatched(handle_ld(decoded, fetched.operand_a, fetched.operand_b))
run_ldi  == Fetched(LDI)  /\ Dispatched(handle_ldi(decoded, fetched.operand_a, fetched.operand_b))
run_mul  == Fetched(MUL)  /\ Dispatched(handle_mul(decoded, fetched.operand_a, fetched.operand_b))
run_or   == Fetched(OR)   /\ Dispatched(handle_or(decoded, fetched.operand_a, fetched.operand_b))
run_pop  == Fetched(POP)  /\ Dispatched(handle_pop(decoded, fetched.operand_a, fetched.operand_b))
run_pra  == Fetched(PRA)  /\ Dispatched(handle_pra(decoded, fetched.operand_a, fetched.operand_b))
run_prn  == Fetched(PRN)  /\ Dispatched(handle_prn(decoded, fetched.operand_a, fetched.operand_b))
run_push == Fetched(PUSH) /\ Dispatched(handle_push(decoded, fetched.operand_a, fetched.operand_b))
run_ret  == Fetched(RET)  /\ Dispatched(handle_ret(decoded, fetched.operand_a, fetched.operand_b))
run_st   == Fetched(ST)   /\ Dispatched(handle_st(decoded, fetched.operand_a, fetched.operand_b))
run_sub  == Fetched(SUB)  /\ Dispatched(handle_sub(decoded, fetched.operand_a, fetched.operand_b))

Next ==
    \/ run_check_for_timer_int
    \/ run_return
    \/ run_handle_ints
    \/ run_fetch_error
    \/ run_invalid_instruction
    \/ run_add
    \/ run_call
    \/ run_cmp
    \/ run_dec
    \/ run_div
    \/ run_hlt
    \/ run_inc
    \/ run_iret
    \/ run_jeq
    \/ run_jmp
    \/ run_jne
    \/ run_ld
    \/ run_ldi
    \/ run_mul
    \/ run_or
    \/ run_pop
    \/ run_pra
    \/ run_prn
    \/ run_push
    \/ run_ret
    \/ run_st
    \/ run_sub

Spec == Init /\ [][Next]_vars


\* ------------------------------------------------------------------------
\* Properties

Printed17 == <<[fn |-> "PRN", val |-> I(17)]>>

\* Steps the add program has left at most: three per byte up to address 13
\* and the position in the iteration
StepsLeft ==
    3 * (13 - Num(pc))
    + (CASE at = "timer" -> 3 [] at = "ints" -> 2 [] at = "fetch" -> 1
         [] at = "done" -> 0)

\* C1: from the program LDI R0 8; LDI R1 9; ADD R0 R1; PRN R0; HLT at
\* address 0, every step of every run, whatever the timer check does,
\* raises no exception, leaves printed nothing or 17 alone, 17 once halted
\* is set, and brings the run closer to its return: run() returns after
\* halting with 17 printed.
C1_AddProgramPrints17 ==
    [][image = "add" =>
        /\ err' = "none"
        /\ out' \in {<<>>, Printed17}
        /\ (halted' => out' = Printed17)
        /\ (at' = "done" => halted')
        /\ StepsLeft' < StepsLeft
        /\ StepsLeft' >= 0]_vars

\* The add program has halted after printing 17, the timer having fired
C1_Witness ==
    /\ image = "add"
    /\ at = "done"
    /\ halted
    /\ err = "none"
    /\ out = Printed17
    /\ Bit(Num(reg[IS]), 0) = 1

\* An IRET is about to run in a handler that has left the nine saved cells
\* as the delivery wrote them and the stack pointer where the delivery left it
IretOfDelivery ==
    /\ Fetched(IRET)
    /\ ie = 0
    /\ snap.ok
    /\ reg[SP] = PySub(snap.reg[SP], I(9))
    /\ Frame(ram, reg[SP]) = snap.frame

\* C2 as stated: after the IRET of such a handler, registers 0 through 6,
\* FL and PC equal their values immediately before the delivery.
C2_RestoresAllOfR0toR6 ==
    [][IretOfDelivery =>
        /\ err' = "none"
        /\ \A i \in 0 .. 6 : reg'[i] = snap.reg[i]
        /\ fl' = snap.fl
        /\ pc' = snap.pc]_vars

\* C2 amended: after the IRET of such a handler, registers 0 through 5, FL
\* and PC equal their values immediately before the delivery, and register
\* 6 (IS) equals its value before the delivery with the bit of the delivered
\* interrupt cleared.
C2_RestoresWithDeliveredBitCleared ==
    [][IretOfDelivery =>
        /\ err' = "none"
        /\ \A i \in 0 .. 5 : reg'[i] = snap.reg[i]
        /\ reg'[IS] = I(Num(snap.reg[IS]) - 2 ^ snap.line)
        /\ fl' = snap.fl
        /\ pc' = snap.pc
        /\ ie' = 1]_vars

\* A handler that changed R0, R1, R2 and FL has just returned with IRET
C2_Witness ==
    /\ prev.op = IRET
    /\ prev.ok
    /\ snap.ok
    /\ prev.reg[SP] = PySub(snap.reg[SP], I(9))
    /\ \A i \in 0 .. 2 : prev.reg[i] # snap.reg[i] /\ reg[i] = snap.reg[i]
    /\ prev.fl # snap.fl
    /\ fl = snap.fl
    /\ pc = snap.pc

\* The delivery check is about to run with interrupts enabled and lines 0
\* and 2 both pending and unmasked
Lines0And2Pending ==
    /\ at = "ints"
    /\ err = "none"
    /\ ie = 1
    /\ IsInt(reg[IM])
    /\ IsInt(reg[IS])
    /\ \A i \in {0, 2} : Bit(Num(reg[IM]), i) = 1 /\ Bit(Num(reg[IS]), i) = 1

\* C3: with lines 0 and 2 pending and unmasked, a delivery check that
\* completes delivers line 0 alone: PC becomes memory[0xF8], interrupts are
\* disabled, bit 0 of IS is cleared and bit 2 stays pending.  A delivery of
\* line 2 sets PC to memory[0xFA], and every delivery after the first
\* follows a completed IRET, so line 2 is entered only after the handler of
\* line 0 has returned.
C3_LowestLineFirst ==
    [][/\ (Lines0And2Pending /\ err' = "none" =>
            /\ ie' = 0
            /\ pc' = ram'[VECTOR_BASE]
            /\ snap'.line = 0
            /\ Bit(Num(reg'[IS]), 0) = 0
            /\ Bit(Num(reg'[IS]), 2) = 1
            /\ Len(delivered') <= Len(delivered) + 1)
       /\ (snap' # snap /\ snap'.line = 2 /\ err' = "none" =>
            pc' = ram'[VECTOR_BASE + 2])
       /\ \A k \in 2 .. Len(delivered') : delivered'[k].after_iret]_vars

\* Line 0 was delivered, its handler returned, and the handler of line 2
\* has just been entered
C3_Witness ==
    /\ Len(delivered) = 2
    /\ delivered[1].line = 0
    /\ delivered[2].line = 2
    /\ delivered[2].after_iret
    /\ at = "fetch"
    /\ snap.line = 2
    /\ pc = ram[VECTOR_BASE + 2]
    /\ ie = 0

\* C4: IE goes from 1 to 0 only in the delivery check and from 0 to 1 only
\* in the dispatch of IRET; while IE is 0 nothing is delivered and the
\* delivery check changes nothing, whatever IM and IS hold.
C4_HandlersNeverNest ==
    [][/\ (ie = 1 /\ ie' = 0 => at = "ints")
       /\ (ie = 0 /\ ie' = 1 => Fetched(IRET))
       /\ (ie = 0 => snap' = snap /\ delivered' = delivered)
       /\ (ie = 0 /\ at = "ints" => cpu' = cpu)]_vars

\* Inside a handler, past a delivery check that found an unmasked interrupt
\* pending and delivered nothing
C4_Witness ==
    /\ at = "fetch"
    /\ ie = 0
    /\ err = "none"
    /\ snap.ok
    /\ prev.op # -1
    /\ IsInt(reg[IM])
    /\ IsInt(reg[IS])
    /\ BitAnd(Num(reg[IM]), Num(reg[IS])) # 0

\* A POP is about to run right after a completed PUSH, no interrupt having
\* been delivered in between
PopAfterPush ==
    /\ Fetched(POP)
    /\ prev.op = PUSH
    /\ prev.ok

\* The value PUSH read from its register
PushedValue == prev.reg[ListIndex(prev.operand_a, NumRegs)]

\* C5 as stated: for all r and q in 0..7, PUSH r then POP q leaves register
\* q equal to the old value of register r and SP equal to its old value.
C5_RoundTripAnyRegister ==
    [][PopAfterPush /\ Num(fetched.operand_a) \in 0 .. 7 =>
        /\ reg'[Num(fetched.operand_a)] = PushedValue
        /\ reg'[SP] = prev.reg[SP]]_vars

\* C5 amended: PUSH r then POP q, when the PUSH completes, leaves register q
\* equal to the old value of register r and, for q in 0..6, SP equal to its
\* value before the PUSH; POP 7 leaves SP equal to the pushed value.
C5_RoundTrip ==
    [][PopAfterPush /\ Num(fetched.operand_a) \in 0 .. 7 =>
        /\ err' = "none"
        /\ reg'[Num(fetched.operand_a)] = PushedValue
        /\ (Num(fetched.operand_a) # SP => reg'[SP] = prev.reg[SP])]_vars

\* PUSH r then POP q with q # r has copied a non-zero value; SP is back
C5_Witness ==
    /\ prev.op = POP
    /\ prev.ok
    /\ prev2.op = PUSH
    /\ prev2.ok
    /\ prev.operand_a # prev2.operand_a
    /\ Num(prev.operand_a) \in 0 .. 6
    /\ reg[Num(prev.operand_a)] = prev2.reg[Num(prev2.operand_a)]
    /\ reg[Num(prev.operand_a)] # prev2.reg[Num(prev.operand_a)]
    /\ reg[SP] = prev2.reg[SP]

\* C6: a RET dispatched right after a completed CALL at address C leaves PC
\* equal to C + 2 and SP equal to its value before the CALL.
C6_CallRetRoundTrip ==
    [][Fetched(RET) /\ prev.op = CALL /\ prev.ok =>
        /\ err' = "none"
        /\ pc' = I(Num(prev.pc) + 2)
        /\ reg'[SP] = prev.reg[SP]]_vars

\* CALL to an address holding RET, then that RET, done
C6_Witness ==
    /\ prev.op = RET
    /\ prev.ok
    /\ prev2.op = CALL
    /\ prev2.ok
    /\ prev.pc = prev2.reg[Num(prev2.operand_a)]
    /\ pc = I(Num(prev2.pc) + 2)
    /\ reg[SP] = prev2.reg[SP]

\* The mathematical result of the arithmetic instruction op on ints x, y
Arith(op, x, y) ==
    CASE op = ADD -> x + y
      [] op = SUB -> x - y
      [] op = MUL -> x * y
      [] op = INC -> x + 1
      [] op = DEC -> x - 1

\* C7: after ADD, SUB, MUL, INC or DEC on registers holding values in
\* 0..255 the destination register holds the mathematical result modulo
\* 256, a value in 0..255.
C7_ArithmeticWrapsTo8Bits ==
    LET a == ListIndex(prev.operand_a, NumRegs)
        b == ListIndex(prev.operand_b, NumRegs)
    IN  (/\ prev.ok
         /\ prev.op \in {ADD, SUB, MUL, INC, DEC}
         /\ IsInt(prev.reg[a])
         /\ Num(prev.reg[a]) \in 0 .. 255
         /\ (prev.op \in {ADD, SUB, MUL} =>
                IsInt(prev.reg[b]) /\ Num(prev.reg[b]) \in 0 .. 255)) =>
            /\ reg[a] = I(Arith(prev.op, Num(prev.reg[a]), Num(prev.reg[b])) % 256)
            /\ Num(reg[a]) \in 0 .. 255

\* C8: after every completed CMP reg_a, reg_b, whatever FL held before, of
\* the three low bits of FL exactly one is set: LT if reg_a < reg_b, GT if
\* reg_a > reg_b, EQ if they are equal.
C8_CmpSetsExactlyOneFlag ==
    (prev.op = CMP /\ prev.ok) =>
        LET x == prev.reg[ListIndex(prev.operand_a, NumRegs)]
            y == prev.reg[ListIndex(prev.operand_b, NumRegs)]
        IN  /\ IsInt(fl)
            /\ Num(fl) % 8 = (IF PyLess(x, y) THEN 4
                              ELSE IF PyLess(y, x) THEN 2 ELSE 1)

\* CMP of 3 with 5 has run on an FL of 0xFF that IRET had loaded
C8_Witness ==
    /\ prev.op = CMP
    /\ prev.ok
    /\ prev2.op = IRET
    /\ prev.fl = I(255)
    /\ prev.reg[Num(prev.operand_a)] = I(3)
    /\ prev.reg[Num(prev.operand_b)] = I(5)
    /\ Num(fl) % 8 = 4

\* The fetch is about to read at PC an int that is no key of the branch table
UnmappedOpcode ==
    /\ at = "fetch"
    /\ err = "none"
    /\ Ok(ram_read(S, pc).s)
    /\ IsInt(fetched.ir)
    /\ Num(fetched.ir) \notin branchtable

\* The loop stops in the invalid-instruction error for the fetched opcode
\* and the current PC, the registers, memory, FL and PC untouched
StopsAsInvalid ==
    /\ err' = "InvalidInstruction"
    /\ err_args' = <<fetched.ir, pc>>
    /\ UNCHANGED <<reg, ram, fl, pc, halted, out>>

\* C9 as stated: whenever the byte fetched at PC is not a mapped opcode the
\* loop stops in the invalid-instruction error.
C9_AnyUnmappedOpcodeIsInvalid == [][UnmappedOpcode => StopsAsInvalid]_vars

\* C9 amended: when the byte fetched at PC is not a mapped opcode and the
\* cells at PC+1 and PC+2 exist, the loop stops in the invalid-instruction
\* error carrying that opcode and that PC, with registers, memory, FL, PC
\* and SP as they were at the fetch; when PC+1 or PC+2 is past the end of
\* memory the loop stops in an index error instead, equally without
\* changing them.  No step follows an error.
C9_UnmappedOpcodeIsInvalid ==
    [][/\ (UnmappedOpcode /\ Ok(fetched.s) => StopsAsInvalid)
       /\ (UnmappedOpcode /\ ~Ok(fetched.s) =>
            /\ err' = "IndexError"
            /\ UNCHANGED <<reg, ram, fl, pc, halted, out>>)
       /\ err = "none"]_vars

\* The byte 0xFF at address 0 has stopped the loop
C9_Witness ==
    /\ image = "bad"
    /\ err = "InvalidInstruction"
    /\ err_args = <<I(255), I(0)>>
    /\ pc = I(0)
    /\ prev.op = -1

\* C10: halted becomes true in the dispatch of HLT and in no other step;
\* once it is true the only step left is the return of run(), which happens
\* only then and changes nothing of the CPU; nothing follows the return or
\* an exception.
C10_OnlyHltEndsTheLoop ==
    [][/\ (halted' <=> (halted \/ Fetched(HLT)))
       /\ (halted => at = "timer" /\ at' = "done" /\ cpu' = cpu)
       /\ (at' = "done" => halted)
       /\ err = "none"
       /\ at # "done"]_vars

\* HLT has been dispatched and run() has returned
C10_Witness ==
    /\ halted
    /\ err = "none"
    /\ prev.op = HLT
    /\ at = "done"
    /\ pc = I(Num(prev.pc) + 1)

\* ------------------------------------------------------------------------
\* The memory cells a step touches

RECURSIVE Performed(_)
\* Of the accesses at the addresses as, made in that order, those that take
\* place: the first address that is no index of ram raises, and nothing
\* after it is reached
Performed(as) ==
    IF as = <<>> \/ ListIndexError(Head(as), MemSize) # "none" THEN {}
    ELSE {Head(as)} \cup Performed(Tail(as))

\* The addresses the delivery of a line pushes to, from stack pointer sp
\* (lines 197-200), and the vector it reads (line 203)
DeliveryAddresses(sp, i) ==
    [k \in 1 .. 9 |-> PySub(sp, I(k))] \o <<I(VECTOR_BASE + i)>>

\* The addresses the handler of the fetched instruction passes to ram_read
\* and ram_write, in order (lines 117-125 and 279-324)
HandlerAddresses ==
    LET op == Num(fetched.ir)
        a == reg_read(decoded, fetched.operand_a)
        b == reg_read(decoded, fetched.operand_b)
    IN  CASE op = LD /\ Ok(b.s) -> <<b.val>>
          [] op = ST /\ Ok(b.s) /\ Ok(a.s) -> <<a.val>>
          [] op = PUSH /\ Ok(a.s) -> <<PySub(reg[SP], I(1))>>
          [] op = CALL -> <<PySub(reg[SP], I(1))>>
          [] op \in {POP, RET} -> <<reg[SP]>>
          [] op = IRET -> [k \in 1 .. 9 |-> PyAdd(reg[SP], I(k - 1))]
          [] OTHER -> <<>>

\* The addresses the coming step passes to ram or to ram_read and ram_write,
\* in order, as far as no other exception comes first
AddressesNext ==
    IF err # "none" THEN <<>>
    ELSE IF at = "ints" THEN
        IF ie = 1 /\ IsInt(reg[IM]) /\ IsInt(reg[IS])
              /\ PendingLines(masked_ints(S)) # {}
        THEN DeliveryAddresses(reg[SP], first_line(masked_ints(S)))
        ELSE <<>>
    ELSE IF at = "fetch" THEN
        <<pc, PyAdd(pc, I(1)), PyAdd(pc, I(2))>>
        \o IF Ok(fetched.s) /\ IsInt(fetched.ir)
              /\ Num(fetched.ir) \in branchtable
           THEN HandlerAddresses ELSE <<>>
    ELSE <<>>

\* The addresses at which the coming step reads or writes a memory cell
AccessedNext == Performed(AddressesNext)

\* C11: in every state PC is an address of memory, and every cell a step
\* reads or writes (opcode and operand fetch, LD, ST, push, pop, vector
\* lookup) is named by an address in 0..255.
C11_PcAndAddressesInRange ==
    /\ IsInt(pc)
    /\ Num(pc) \in 0 .. (MemSize - 1)
    /\ \A a \in AccessedNext : Num(a) \in 0 .. (MemSize - 1)

\* The coming step reaches an access whose address is an int outside 0..255
OutOfRangeAccess ==
    \E k \in 1 .. Len(AddressesNext) :
        /\ \A j \in 1 .. (k - 1) :
                ListIndexError(AddressesNext[j], MemSize) = "none"
        /\ IsInt(AddressesNext[k])
        /\ Num(AddressesNext[k]) \notin 0 .. (MemSize - 1)

\* C12: a step that reaches a memory access at an address below 0 or above
\* 255 ends the execution in an error and leaves every memory cell as it
\* was.
C12_OutOfRangeAccessIsFatal ==
    [][OutOfRangeAccess => err' # "none" /\ ram' = ram]_vars

\* The fetch has read DIV with two register numbers, the second register
\* holding zero
DivByZero ==
    /\ Fetched(DIV)
    /\ ListIndexError(fetched.operand_a, NumRegs) = "none"
    /\ ListIndexError(fetched.operand_b, NumRegs) = "none"
    /\ PyIsZero(reg[ListIndex(fetched.operand_b, NumRegs)])

\* C13: DIV reg_a, reg_b with register reg_b holding 0 stops the loop in a
\* division-by-zero error, which is not the unsupported-operation error of
\* alu; all registers, memory, FL, PC and the output are as they were, and
\* no step follows an error.
C13_DivByZeroIsFatal ==
    [][/\ (DivByZero =>
            /\ err' = "ZeroDivisionError"
            /\ err' # "UnsupportedALU"
            /\ UNCHANGED <<reg, ram, fl, pc, halted, out>>)
       /\ err = "none"]_vars

\* LDI R0,1; LDI R1,0; DIV R0,R1 has stopped the loop at the DIV
C13_Witness ==
    /\ image = "alu"
    /\ err = "ZeroDivisionError"
    /\ prev.op = DIV
    /\ ~prev.ok
    /\ prev.pc = I(6)
    /\ pc = I(6)
    /\ reg = prev.reg
    /\ reg[0] = I(1)
    /\ reg[1] = I(0)
    /\ out = <<>>

\* The fetched instruction is a JEQ or JNE whose condition does not hold
NotTaken ==
    \/ Fetched(JEQ) /\ IsInt(fl) /\ ~fl_eq(Num(fl))
    \/ Fetched(JNE) /\ IsInt(fl) /\ fl_eq(Num(fl))

\* The fetched instruction is one whose handler assigns PC
SetsPc ==
    /\ \E op \in {CALL, RET, JMP, IRET, JEQ, JNE} : Fetched(op)
    /\ ~NotTaken

\* C14: a dispatch that completes leaves in PC the value its handler
\* assigned when the instruction is CALL, RET, JMP, IRET or a taken JEQ or
\* JNE (the register named by the operand for CALL, JMP, JEQ and JNE, the
\* popped cell for RET, the last of the nine popped cells for IRET); after
\* every other instruction, a not-taken JEQ or JNE included, PC has grown
\* by one plus the operand count in bits 6-7 of the opcode; and a not-taken
\* JEQ or JNE changes no register, memory cell, flag or output.
C14_PcAfterDispatch ==
    [][(\E op \in branchtable : Fetched(op)) /\ err' = "none" =>
          LET op == Num(fetched.ir)
              r == ListIndex(fetched.operand_a, NumRegs)
          IN  /\ SetsPc /\ op \in {CALL, JMP, JEQ, JNE} => pc' = reg'[r]
              /\ SetsPc /\ op = RET => pc' = ram[ListIndex(reg[SP], MemSize)]
              /\ SetsPc /\ op = IRET =>
                    pc' = ram[ListIndex(PyAdd(reg[SP], I(8)), MemSize)]
              /\ ~SetsPc => pc' = PyAdd(pc, I(1 + ((op \div 64) % 4)))
              /\ NotTaken => UNCHANGED <<reg, ram, fl, ie, halted, out>>]_vars

\* A JNE found the equal flag set and fell through to the next instruction
C14_Witness ==
    /\ image = "jump"
    /\ prev.op = JNE
    /\ prev.ok
    /\ Num(prev.fl) % 2 = 1
    /\ pc = I(Num(prev.pc) + 2)
    /\ pc # prev.reg[Num(prev.operand_a)]
    /\ reg = prev.reg
    /\ fl = prev.fl

\* C15: a delivery check that enters a handler from SP = s (the nine cells
\* below s being cells of memory), PC = p and FL = f has cleared the bit of
\* one pending line i in IS and left IE = 0, memory[s-1] = p,
\* memory[s-2] = f, memory[s-3] .. memory[s-9] = registers 0 .. 6 (register
\* 6 as it is after the bit was cleared), SP = s - 9 and
\* PC = memory[0xF8 + i]; registers 0-5, FL, the output and every other
\* memory cell are as before.
C15_DeliveryFrame ==
    [][(/\ at = "ints"
        /\ ie = 1
        /\ ie' = 0
        /\ err' = "none"
        /\ IsInt(reg[SP])
        /\ Num(reg[SP]) \in 9 .. MemSize) =>
          \E i \in 0 .. 7 :
             LET s == Num(reg[SP])
             IN  /\ Bit(Num(reg[IS]), i) = 1
                 /\ Bit(Num(reg[IM]), i) = 1
                 /\ reg'[IS] = I(Num(reg[IS]) - 2 ^ i)
                 /\ ram'[s - 1] = pc
                 /\ ram'[s - 2] = fl
                 /\ \A r \in 0 .. 5 : ram'[s - 3 - r] = reg[r]
                 /\ ram'[s - 9] = reg'[IS]
                 /\ reg'[SP] = I(s - 9)
                 /\ pc' = ram'[VECTOR_BASE + i]
                 /\ \A r \in 0 .. 5 : reg'[r] = reg[r]
                 /\ fl' = fl
                 /\ out' = out
                 /\ halted' = halted
                 /\ \A a \in 0 .. (MemSize - 1) :
                        a \notin (s - 9) .. (s - 1) => ram'[a] = ram[a]]_vars

\* Line 0 has just been delivered from SP = 100 and PC = 18: the frame lies
\* in cells 91 .. 99 and the handler at 40 is about to be fetched
C15_Witness ==
    /\ image = "intsp"
    /\ at = "fetch"
    /\ err = "none"
    /\ ie = 0
    /\ snap.ok
    /\ snap.line = 0
    /\ snap.reg[SP] = I(100)
    /\ reg[SP] = I(91)
    /\ ram[99] = snap.pc
    /\ snap.pc = I(18)
    /\ ram[91] = reg[IS]
    /\ pc = I(40)
    /\ prev = NoPrev

\* C16: the delivery check leaves the whole CPU as it is when IE = 0 or
\* when IM & IS = 0; it never clears an IS bit whose IM bit is clear; and
\* the line it delivers is the lowest bit set in IM & IS, the only bit of IS
\* it clears.
C16_DeliveryCheckFrame ==
    [][at = "ints" /\ err = "none" =>
          /\ ie = 0 => cpu' = cpu
          /\ (/\ IsInt(reg[IM])
              /\ IsInt(reg[IS])
              /\ BitAnd(Num(reg[IM]), Num(reg[IS])) = 0) => cpu' = cpu
          /\ (ie = 1 /\ IsInt(reg[IM]) /\ IsInt(reg[IS])) =>
                /\ \A i \in 0 .. 7 :
                      Bit(Num(reg[IS]), i) = 1 /\ Bit(Num(reg[IM]), i) = 0 =>
                          Bit(Num(reg'[IS]), i) = 1
                /\ cpu' # cpu =>
                      \E i \in 0 .. 7 :
                          /\ Bit(Num(reg[IM]), i) = 1
                          /\ Bit(Num(reg[IS]), i) = 1
                          /\ \A j \in 0 .. (i - 1) :
                                Bit(Num(reg[IM]), j) = 0
                                    \/ Bit(Num(reg[IS]), j) = 0
                          /\ reg'[IS] = I(Num(reg[IS]) - 2 ^ i)
                          /\ ie' = 0
                          /\ err' = "none" => pc' = ram'[VECTOR_BASE + i]]_vars

\* Inside a handler (IE = 0) a delivery check has run with an unmasked line
\* pending and has left it pending
C16_Witness ==
    /\ at = "fetch"
    /\ err = "none"
    /\ ie = 0
    /\ prev.op # -1
    /\ prev.ok
    /\ BitAnd(Num(reg[IM]), Num(reg[IS])) # 0
    /\ snap.ok
    /\ reg[SP] = PySub(snap.reg[SP], I(9))

\* The fetch of an iteration whose delivery check has delivered a line
FetchAfterDelivery ==
    /\ at = "fetch"
    /\ err = "none"
    /\ snap.line # -1
    /\ prev = NoPrev

\* C17: an iteration is the timer check, then the delivery check, then one
\* fetch and dispatch of the instruction at PC.  The timer check only sets
\* bit 0 of IS; the delivery check that follows it delivers line 0 whenever
\* IE = 1 and bit 0 is set in IM and IS, so that no fetch ever finds
\* interrupts enabled and an unmasked line pending; the instruction
\* dispatched in a delivering iteration is the one at the vector address;
\* and PC is the saved PC again when the handler's IRET has popped the
\* frame.
C17_IterationOrder ==
    [][/\ at = "timer" =>
            /\ at' \in {"ints", "done"}
            /\ UNCHANGED <<pc, fl, ie, ram, out, prev, prev2, snap>>
            /\ reg' # reg =>
                  /\ at' = "ints"
                  /\ reg' = [reg EXCEPT ![IS] = I(BitOr(Num(reg[IS]), 1))]
       /\ at = "ints" =>
            /\ at' = "fetch"
            /\ out' = out
            /\ prev' \in {prev, NoPrev}
            /\ (/\ ie = 1
                /\ IsInt(reg[IM])
                /\ IsInt(reg[IS])
                /\ Bit(Num(reg[IM]), 0) = 1
                /\ Bit(Num(reg[IS]), 0) = 1) =>
                  /\ ie' = 0
                  /\ snap'.line = 0
                  /\ snap'.pc = pc
                  /\ Bit(Num(reg'[IS]), 0) = 0
                  /\ err' = "none" => pc' = ram'[VECTOR_BASE]
       /\ (at' = "fetch" /\ err' = "none" /\ ie' = 1) =>
            \A i \in 0 .. 7 :
                Bit(Num(reg'[IM]), i) = 0 \/ Bit(Num(reg'[IS]), i) = 0
       /\ (at = "fetch" /\ err' = "none") =>
            /\ at' = "timer"
            /\ prev'.op = Num(ram[ListIndex(pc, MemSize)])
            /\ prev'.pc = pc
            /\ prev2' = prev
       /\ (FetchAfterDelivery /\ err' = "none") =>
            /\ pc = ram[VECTOR_BASE + snap.line]
            /\ prev'.pc = ram[VECTOR_BASE + snap.line]
       /\ IretOfDelivery => pc' = snap.pc /\ ie' = 1 /\ at' = "timer"]_vars

\* The timer has raised line 0 after the program had cleared IS, and the
\* same iteration is about to fetch the first instruction of the handler
C17_Witness ==
    /\ image = "int"
    /\ FetchAfterDelivery
    /\ snap.ok
    /\ snap.line = 0
    /\ Num(snap.pc) >= 24
    /\ snap.reg[IM] = I(1)
    /\ snap.reg[IS] = I(1)
    /\ reg[IS] = I(0)
    /\ ie = 0
    /\ pc = I(40)
    /\ ram[VECTOR_BASE] = I(40)
    /\ ram[40] # ram[Num(snap.pc)]

\* C18: a fetch with PC = 254 or PC = 255 stops the loop in an index error
\* whatever the opcode at PC is, before any handler is dispatched: nothing
\* of the CPU changes, halted stays false and no instruction is recorded as
\* dispatched.
C18_FetchNearEndIsFatal ==
    [][(at = "fetch" /\ err = "none" /\ pc \in {I(254), I(255)}) =>
          /\ err' = "IndexError"
          /\ ~halted'
          /\ UNCHANGED <<pc, fl, ie, halted, inst_set_pc, ram, reg, out, at,
                         prev, prev2, snap>>]_vars

\* A jump to an HLT stored at address 254 has ended in the index error
C18_Witness ==
    /\ image = "badjump"
    /\ err = "IndexError"
    /\ at = "fetch"
    /\ pc = I(254)
    /\ ram[254] = I(HLT)
    /\ ~halted
    /\ prev.op = JMP
    /\ prev.ok

\* C19: a completed IRET leaves in register 6 (IS) the cell at SP and in
\* register 5 (IM) the cell above it; for the IRET of a delivery these are
\* the values the delivery saved, IS with the delivered bit cleared, so
\* every IS bit that is set before the IRET and was not set in the saved
\* value is clear after it, and it was not delivered meanwhile.
C19_IretRestoresIsAndIm ==
    [][/\ (Fetched(IRET) /\ err' = "none") =>
            /\ reg'[IS] = ram[ListIndex(reg[SP], MemSize)]
            /\ reg'[IM] = ram[ListIndex(PyAdd(reg[SP], I(1)), MemSize)]
       /\ IretOfDelivery =>
            /\ err' = "none"
            /\ reg'[IS] = snap.frame[9]
            /\ reg'[IM] = snap.frame[8]
            /\ reg'[IS] = I(Num(snap.reg[IS]) - 2 ^ snap.line)
            /\ reg'[IM] = snap.reg[IM]
            /\ \A i \in 0 .. 7 :
                  Bit(Num(snap.frame[9]), i) = 0 => Bit(Num(reg'[IS]), i) = 0
            /\ delivered' = delivered
            /\ snap' = snap]_vars

\* The timer raised line 0 while its handler ran with line 0 unmasked; the
\* IRET has returned to the interrupted program with the bit clear again
\* and nothing delivered for it
C19_Witness ==
    /\ prev.op = IRET
    /\ prev.ok
    /\ snap.ok
    /\ snap.line = 0
    /\ Bit(Num(prev.reg[IS]), 0) = 1
    /\ Bit(Num(prev.reg[IM]), 0) = 1
    /\ Bit(Num(reg[IS]), 0) = 0
    /\ Bit(Num(reg[IM]), 0) = 1
    /\ ie = 1
    /\ at = "timer"
    /\ pc = snap.pc
    /\ Len(delivered) = 1

\* C20: a delivery that completes lowers SP by nine and writes at most
\* nine cells, a completed IRET raises SP by nine; so the IRET of a handler
\* that has brought SP back to where the delivery left it leaves SP as it
\* was immediately before the delivery.
C20_DeliveryAndIretBalance ==
    [][/\ (at = "ints" /\ ie = 1 /\ ie' = 0 /\ err' = "none") =>
            /\ reg'[SP] = PySub(reg[SP], I(9))
            /\ Cardinality({a \in 0 .. (MemSize - 1) : ram'[a] # ram[a]}) <= 9
       /\ (Fetched(IRET) /\ err' = "none") =>
            /\ reg'[SP] = PyAdd(reg[SP], I(9))
            /\ ram' = ram
       /\ (/\ Fetched(IRET)
           /\ err' = "none"
           /\ snap.line # -1
           /\ reg[SP] = PySub(snap.reg[SP], I(9))) => reg'[SP] = snap.reg[SP]]_vars

\* Two interrupts have been delivered and returned from, and SP is the
\* initial 0xF4 again
C20_Witness ==
    /\ Len(delivered) = 2
    /\ delivered[2].after_iret
    /\ prev.op = IRET
    /\ prev.ok
    /\ snap.ok
    /\ prev.reg[SP] = I(SP_INIT - 9)
    /\ snap.reg[SP] = I(SP_INIT)
    /\ reg[SP] = I(SP_INIT)
    /\ ie = 1

=============================================================================
